---------------------------- MODULE Spec2Model ----------------------------
(***************************************************************************)
(* Model of backend/index.js: an Express server keeping student records    *)
(* in one JSON file (students.json).                                       *)
(*                                                                         *)
(* JavaScript values are tagged records [t, v]: t is the typeof-like tag,  *)
(* v the characters of a string (or the digits of a number).  Objects are  *)
(* functions from property names to values; a property that is absent is   *)
(* simply not in the domain.  The file is modelled by what its text        *)
(* denotes: missing, zero bytes, text JSON.parse rejects, a JSON object    *)
(* that is no array, or a JSON array of records.                           *)
(***************************************************************************)
EXTENDS Integers, Sequences, FiniteSets, TLC

VARIABLES
    started,   \* the listen callback has run
    file,      \* students.json on disk
    req,       \* the request served last
    resp,      \* the response sent last
    last,      \* which handler ran last
    saveLog,   \* outcome of the last writeFileSync (what console.error shows)
    acked,     \* history: records answered 201 and written, since the last truncation
    pc,        \* statement by statement: where each POST handler stands
    snap,      \* statement by statement: the array `students` each handler holds
    made,      \* statement by statement: the newStudent each handler built
    wrote      \* statement by statement: the outcome of each handler's write

vars == <<started, file, req, resp, last, saveLog, acked, pc, snap, made, wrote>>

----------------------------------------------------------------------------
(* Bounds *)

MaxStudents == 2   \* records the document may hold
MaxId == 2         \* distinct readings of Date.now()
MaxHandlers == 2   \* POST requests in flight in the statement-by-statement view

----------------------------------------------------------------------------
(* JavaScript values *)

Undef == [t |-> "undefined", v |-> <<>>]
Null == [t |-> "null", v |-> <<>>]
Fn == [t |-> "function", v |-> <<>>]
Str(s) == [t |-> "string", v |-> s]
Num(d) == [t |-> "number", v |-> d]

\* ToBoolean: "", 0, null and undefined are falsy
Truthy(x) ==
    \/ x.t = "string" /\ x.v # <<>>
    \/ x.t = "number" /\ x.v # <<"0">>
    \/ x.t = "function"

LowerChar(c) ==
    CASE c = "A" -> "a"
      [] c = "L" -> "l"
      [] c = "B" -> "b"
      [] c = "O" -> "o"
      [] OTHER -> c

\* String.prototype.toLowerCase
toLowerCase(s) == [i \in 1..Len(s) |-> LowerChar(s[i])]

\* String.prototype.includes
includes(s, sub) ==
    \E i \in 1..(Len(s) - Len(sub) + 1) : SubSeq(s, i, i + Len(sub) - 1) = sub

\* properties every object inherits from Object.prototype
ProtoKeys == {"constructor"}

\* obj[key]
Get(obj, key) ==
    IF key \in DOMAIN obj THEN obj[key]
    ELSE IF key \in ProtoKeys THEN Fn
    ELSE Undef

\* JSON.stringify followed by JSON.parse of one object: properties whose
\* value is undefined are left out of the text
Stringify(obj) ==
    [k \in {j \in DOMAIN obj : obj[j].t # "undefined"} |-> obj[k]]

StringifyAll(students) == [i \in 1..Len(students) |-> Stringify(students[i])]

Digit == <<"1", "2", "3", "4", "5", "6", "7", "8", "9">>

\* Date.now()
Clock == {Num(<<Digit[n]>>) : n \in 1..MaxId}

----------------------------------------------------------------------------
(* The file and the two helpers *)

MissingFile == [kind |-> "missing", items |-> <<>>]
EmptyFile == [kind |-> "empty", items |-> <<>>]
MalformedFile == [kind |-> "malformed", items |-> <<>>]
ObjectFile == [kind |-> "object", items |-> <<>>]
ArrayFile(students) == [kind |-> "array", items |-> students]

\* what a handler holds after loadStudents(): an array, or another JSON value
Arr(students) == [isArray |-> TRUE, items |-> students]
NotArr == [isArray |-> FALSE, items |-> <<>>]

loadStudents(f) ==
    CASE f.kind = "missing" -> Arr(<<>>)
      [] f.kind = "empty" -> Arr(<<>>)
      [] f.kind = "malformed" -> Arr(<<>>)
      [] f.kind = "object" -> NotArr
      [] f.kind = "array" -> Arr(f.items)

\* outcomes of fs.writeFileSync: it opens the file with flag 'w', which
\* truncates it, and then writes; a failure of the open leaves the file as
\* it was, a failure of the write leaves zero bytes or a prefix of the text
IoOutcomes == {"ok", "open_fails", "write_fails_empty", "write_fails_partial"}

saveStudents_Rethrow(f, students, io) ==
    [file |-> CASE io = "ok" -> ArrayFile(StringifyAll(students))
                [] io = "open_fails" -> f
                [] io = "write_fails_empty" -> EmptyFile
                [] io = "write_fails_partial" -> MalformedFile,
     threw |-> io # "ok"]

saveStudents_DropLast(f, students, io) ==
    [file |-> CASE io = "ok" ->
                     ArrayFile(StringifyAll(SubSeq(students, 1, Len(students) - 1)))
                [] io = "open_fails" -> f
                [] io = "write_fails_empty" -> EmptyFile
                [] io = "write_fails_partial" -> MalformedFile,
     threw |-> FALSE]

\* saveStudents(students): the file afterwards, and whether it threw
saveStudents(f, students, io) ==
    [file |-> CASE io = "ok" -> ArrayFile(StringifyAll(students))
                [] io = "open_fails" -> f
                [] io = "write_fails_empty" -> EmptyFile
                [] io = "write_fails_partial" -> MalformedFile,
     threw |-> FALSE]

----------------------------------------------------------------------------
(* Requests and responses *)

BodyFields ==
    {"name", "rollNo", "universityId", "bloodGroup", "address", "year", "department"}

With(b, k, x) == [b EXCEPT ![k] = x]

\* req.body after destructuring: a property the client left out reads undefined
NoBody == [k \in BodyFields |-> Undef]

FullBody ==
    [name |-> Str(<<"A", "l">>), rollNo |-> Str(<<"r">>),
     universityId |-> Str(<<"u">>), bloodGroup |-> Str(<<"O">>),
     address |-> Str(<<"x">>), year |-> Str(<<"y">>),
     department |-> Str(<<"C", "S">>)]

BareBody ==
    With(With(With(FullBody, "name", Str(<<"b", "o">>)), "bloodGroup", Undef),
         "address", Undef)

ValidBodies ==
    { FullBody,
      BareBody,
      With(With(With(FullBody, "name", Num(<<"7">>)), "bloodGroup", Null),
           "address", Str(<<>>)) }

InvalidBodies ==
    { NoBody,
      With(FullBody, "name", Undef),
      With(FullBody, "rollNo", Str(<<>>)),
      With(FullBody, "universityId", Num(<<"0">>)),
      With(FullBody, "year", Null),
      With(BareBody, "department", Undef) }

Bodies == ValidBodies \cup InvalidBodies

\* req.query.searchBy: given or not, and the property name it carries
NoParam == [given |-> FALSE, val |-> ""]
Param(k) == [given |-> TRUE, val |-> k]

SearchBys ==
    {NoParam} \cup
    {Param(k) : k \in {"", "name", "id", "bloodGroup", "dept", "constructor"}}

\* req.query.query: undefined or a string
Queries == {Undef, Str(<<>>), Str(<<"A", "L">>), Str(<<"o">>)}

NoStudent == [k \in {} |-> Undef]

NoReq == [op |-> "none", searchBy |-> NoParam, query |-> Undef, body |-> NoBody]
GetReq(sb, q) == [op |-> "GET", searchBy |-> sb, query |-> q, body |-> NoBody]
PostReq(b) == [op |-> "POST", searchBy |-> NoParam, query |-> Undef, body |-> b]

\* a response: its status and what its body carries
NoResp == [status |-> 0, kind |-> "none", students |-> Arr(<<>>), student |-> NoStudent]
Text200 == [status |-> 200, kind |-> "text", students |-> Arr(<<>>), student |-> NoStudent]
Students200(students) ==
    [status |-> 200, kind |-> "students", students |-> students, student |-> NoStudent]
Created201(student) ==
    [status |-> 201, kind |-> "created", students |-> Arr(<<>>), student |-> student]
Error400 == [status |-> 400, kind |-> "error", students |-> Arr(<<>>), student |-> NoStudent]
\* Express answers a handler that threw with status 500
Error500 == [status |-> 500, kind |-> "uncaught", students |-> Arr(<<>>), student |-> NoStudent]

----------------------------------------------------------------------------
(* GET /students *)

\* !searchBy || !query
NoSearch(r) ==
    \/ ~r.searchBy.given
    \/ r.searchBy.val = ""
    \/ ~Truthy(r.query)

\* student[searchBy].toLowerCase is not a function
FilterThrows(student, key) ==
    /\ Truthy(Get(student, key))
    /\ Get(student, key).t # "string"

\* the callback given to students.filter
FilterKeeps(student, key, lowerQuery) ==
    /\ Truthy(Get(student, key))
    /\ includes(toLowerCase(Get(student, key).v), lowerQuery)

GetStudentsResponse(f, r) ==
    LET students == loadStudents(f)
        key == r.searchBy.val
        lowerQuery == toLowerCase(r.query.v)
        Keep(student) == FilterKeeps(student, key, lowerQuery)
    IN  IF NoSearch(r) THEN Students200(students)
        ELSE IF ~students.isArray THEN Error500
        ELSE IF \E i \in 1..Len(students.items) : FilterThrows(students.items[i], key)
             THEN Error500
        ELSE Students200(Arr(SelectSeq(students.items, Keep)))

----------------------------------------------------------------------------
(* POST /students *)

Required == {"name", "rollNo", "universityId", "year", "department"}

ValidBody_NoDepartment(body) ==
    \A k \in Required \ {"department"} : Truthy(body[k])

ValidBody_NoYear(body) ==
    \A k \in Required \ {"year"} : Truthy(body[k])

\* the negation of !name || !rollNo || !universityId || !year || !department
ValidBody(body) == \A k \in Required : Truthy(body[k])

NewStudent(body, now) ==
    [id |-> now, name |-> body.name, rollNo |-> body.rollNo,
     universityId |-> body.universityId, bloodGroup |-> body.bloodGroup,
     address |-> IF Truthy(body.address) THEN body.address ELSE Str(<<>>),
     year |-> body.year, department |-> body.department]

Push_Front(students, student) == <<student>> \o students

\* students.push(newStudent)
Push(students, student) == Append(students, student)

\* the whole handler: the file afterwards, the response, the write's outcome
PostStudentsResult(f, body, now, io) ==
    IF ~ValidBody(body)
    THEN [file |-> f, resp |-> Error400, io |-> "none"]
    ELSE LET newStudent == NewStudent(body, now)
             students == loadStudents(f)
         IN  IF ~students.isArray
             THEN [file |-> f, resp |-> Error500, io |-> "none"]
             ELSE LET saved == saveStudents(f, Push(students.items, newStudent), io)
                  IN  [file |-> saved.file,
                       resp |-> IF saved.threw THEN Error500
                                ELSE Created201(Stringify(newStudent)),
                       io |-> io]

\* history of the records answered 201 and written
AckedAfter(a, result) ==
    CASE result.io = "ok" /\ result.resp.status = 201 -> Append(a, result.resp.student)
      [] result.io \in {"write_fails_empty", "write_fails_partial"} -> <<>>
      [] OTHER -> a

----------------------------------------------------------------------------
(* The server, one handler per step *)

Handlers == 1..MaxHandlers

InitialFiles == {MissingFile, EmptyFile, MalformedFile, ObjectFile, ArrayFile(<<>>)}

InitRest ==
    /\ started = FALSE
    /\ req = NoReq
    /\ resp = NoResp
    /\ last = "init"
    /\ saveLog = "none"
    /\ acked = <<>>
    /\ pc = [h \in Handlers |-> "idle"]
    /\ snap = [h \in Handlers |-> Arr(<<>>)]
    /\ made = [h \in Handlers |-> NoStudent]
    /\ wrote = [h \in Handlers |-> "none"]

Init == file \in InitialFiles /\ InitRest

InitFresh == file = MissingFile /\ InitRest

stepVars == <<pc, snap, made, wrote>>

\* app.listen's callback
Listen ==
    /\ ~started
    /\ started' = TRUE
    /\ \E io \in IoOutcomes :
         IF file.kind = "missing"
         THEN /\ file' = saveStudents(file, <<>>, io).file
              /\ saveLog' = io
         ELSE /\ file' = file
              /\ saveLog' = "none"
    /\ last' = "listen"
    /\ UNCHANGED <<req, resp, acked, stepVars>>

\* app.get("/")
GetRoot ==
    /\ started
    /\ req' = [NoReq EXCEPT !.op = "GET /"]
    /\ resp' = Text200
    /\ last' = "root"
    /\ saveLog' = "none"
    /\ UNCHANGED <<started, file, acked, stepVars>>

\* app.get("/students")
GetStudents ==
    /\ started
    /\ \E sb \in SearchBys, q \in Queries :
         /\ req' = GetReq(sb, q)
         /\ resp' = GetStudentsResponse(file, GetReq(sb, q))
    /\ last' = "get"
    /\ saveLog' = "none"
    /\ UNCHANGED <<started, file, acked, stepVars>>

\* app.post("/students")
PostStudents ==
    /\ started
    /\ Len(loadStudents(file).items) < MaxStudents
    /\ \E body \in Bodies, now \in Clock, io \in IoOutcomes :
         LET result == PostStudentsResult(file, body, now, io)
         IN  /\ req' = PostReq(body)
             /\ file' = result.file
             /\ resp' = result.resp
             /\ saveLog' = result.io
             /\ acked' = AckedAfter(acked, result)
    /\ last' = "post"
    /\ UNCHANGED <<started, stepVars>>

Next == Listen \/ GetRoot \/ GetStudents \/ PostStudents

Spec == Init /\ [][Next]_vars

SpecFresh == InitFresh /\ [][Next]_vars

----------------------------------------------------------------------------
(* POST /students statement by statement, several requests pending.        *)
(* The handler calls readFileSync and writeFileSync and never awaits: once *)
(* the event loop has entered it, no other handler runs until it returns.  *)

MidFlight == {"validated", "loaded", "pushed", "saved"}

CanRun_Async(h) == TRUE

\* the event loop may run a statement of handler h
CanRun(h) == \A o \in Handlers \ {h} : pc[o] \notin MidFlight

StepBodies == {FullBody, BareBody, NoBody}

\* lines 82-104: destructuring, validation, newStudent
PostBegin(h) ==
    /\ started
    /\ CanRun(h)
    /\ pc[h] = "idle"
    /\ \E body \in StepBodies, now \in Clock :
         IF ValidBody(body)
         THEN /\ made' = [made EXCEPT ![h] = NewStudent(body, now)]
              /\ pc' = [pc EXCEPT ![h] = "validated"]
              /\ resp' = resp
         ELSE /\ made' = made
              /\ pc' = [pc EXCEPT ![h] = "sent400"]
              /\ resp' = Error400
    /\ UNCHANGED <<started, file, req, last, saveLog, acked, snap, wrote>>

\* line 106
PostLoad(h) ==
    /\ CanRun(h)
    /\ pc[h] = "validated"
    /\ snap' = [snap EXCEPT ![h] = loadStudents(file)]
    /\ pc' = [pc EXCEPT ![h] = "loaded"]
    /\ UNCHANGED <<started, file, req, resp, last, saveLog, acked, made, wrote>>

\* line 107
PostPush(h) ==
    /\ CanRun(h)
    /\ pc[h] = "loaded"
    /\ IF snap[h].isArray
       THEN /\ snap' = [snap EXCEPT ![h] = Arr(Push(snap[h].items, made[h]))]
            /\ pc' = [pc EXCEPT ![h] = "pushed"]
            /\ resp' = resp
       ELSE /\ snap' = snap
            /\ pc' = [pc EXCEPT ![h] = "sent500"]
            /\ resp' = Error500
    /\ UNCHANGED <<started, file, req, last, saveLog, acked, made, wrote>>

\* line 108
PostSave(h) ==
    /\ CanRun(h)
    /\ pc[h] = "pushed"
    /\ \E io \in IoOutcomes :
         LET saved == saveStudents(file, snap[h].items, io)
         IN  /\ file' = saved.file
             /\ saveLog' = io
             /\ wrote' = [wrote EXCEPT ![h] = io]
             /\ pc' = [pc EXCEPT ![h] = IF saved.threw THEN "sent500" ELSE "saved"]
             /\ resp' = IF saved.threw THEN Error500 ELSE resp
    /\ UNCHANGED <<started, req, last, acked, snap, made>>

\* lines 110-111
PostRespond(h) ==
    /\ CanRun(h)
    /\ pc[h] = "saved"
    /\ pc' = [pc EXCEPT ![h] = "sent201"]
    /\ resp' = Created201(Stringify(made[h]))
    /\ UNCHANGED <<started, file, req, last, saveLog, acked, snap, made, wrote>>

NextSteps ==
    \/ Listen
    \/ \E h \in Handlers : PostBegin(h)
    \/ \E h \in Handlers : PostLoad(h)
    \/ \E h \in Handlers : PostPush(h)
    \/ \E h \in Handlers : PostSave(h)
    \/ \E h \in Handlers : PostRespond(h)

SpecSteps == Init /\ [][NextSteps]_vars

----------------------------------------------------------------------------
(* Vocabulary of the properties *)

IsPrefix(s, t) == Len(s) <= Len(t) /\ SubSeq(t, 1, Len(s)) = s

IsSuffix(s, t) == Len(s) <= Len(t) /\ SubSeq(t, Len(t) - Len(s) + 1, Len(t)) = s

Count(x, s) == Cardinality({i \in 1..Len(s) : s[i] = x})

\* the records the document holds
Persisted(f) == IF f.kind = "array" THEN f.items ELSE <<>>

\* a creation payload lacks one of the five required fields
MissingRequired(body) ==
    \/ ~Truthy(body["name"])
    \/ ~Truthy(body["rollNo"])
    \/ ~Truthy(body["universityId"])
    \/ ~Truthy(body["year"])
    \/ ~Truthy(body["department"])

\* the record carries the submitted values, address defaulted to ""
CarriesPayload(student, body) ==
    /\ \A k \in {"name", "rollNo", "universityId", "bloodGroup", "year", "department"} :
         Get(student, k) = body[k]
    /\ Get(student, "address") =
         IF Truthy(body["address"]) THEN body["address"] ELSE Str(<<>>)

WriteFailed(io) == io \in {"open_fails", "write_fails_empty", "write_fails_partial"}

Truncated(io) == io \in {"write_fails_empty", "write_fails_partial"}

----------------------------------------------------------------------------
(* C1 *)

\* C1: every POST /students whose body has the five required fields is
\* answered 201 with a record carrying the submitted values (address "" when
\* omitted or falsy).
C1_ValidPostIs201 ==
    (last = "post" /\ ~MissingRequired(req.body)) =>
        /\ resp.status = 201
        /\ resp.kind = "created"
        /\ CarriesPayload(resp.student, req.body)

----------------------------------------------------------------------------
(* C2 *)

\* C2: a POST /students whose body lacks a required field is answered 400
\* with an error payload, writes nothing and leaves the document as it was.
C2_InvalidPostIs400 ==
    [][(last' = "post" /\ MissingRequired(req'.body)) =>
          /\ resp'.status = 400
          /\ resp'.kind = "error"
          /\ saveLog' = "none"
          /\ file' = file]_vars

C2_Witness ==
    /\ last = "post"
    /\ MissingRequired(req.body)
    /\ Truthy(req.body["name"])
    /\ resp.status = 400
    /\ Len(Persisted(file)) >= 1

----------------------------------------------------------------------------
(* C3 *)

\* C3 as stated: the record of a 201 response is in the document, and so in
\* the next unfiltered GET /students, exactly once.
C3_Every201IsStoredOnce ==
    (last = "post" /\ resp.status = 201) =>
        Count(resp.student, loadStudents(file).items) = 1

\* C3 amended: the records answered 201 whose write succeeded are the tail of
\* the document, once per creation and in creation order, until a write fails
\* after truncating the file; an unfiltered GET /students returns them so.
C3_WrittenRecordsListed ==
    /\ IsSuffix(acked, loadStudents(file).items)
    /\ (last = "get" /\ NoSearch(req)) =>
           /\ resp.status = 200
           /\ resp.kind = "students"
           /\ IsSuffix(acked, resp.students.items)

C3_Witness ==
    /\ last = "get"
    /\ NoSearch(req)
    /\ Len(acked) = 2
    /\ acked[1] = acked[2]
    /\ Count(acked[1], resp.students.items) = 2

----------------------------------------------------------------------------
(* C4 *)

\* C4: GET /students is always answered 200 with { students: <sequence> },
\* whatever searchBy, query and the document are.
C4_GetIsAlways200 ==
    (last = "get") =>
        /\ resp.status = 200
        /\ resp.kind = "students"
        /\ resp.students.isArray

----------------------------------------------------------------------------
(* C5 *)

\* C5: with searchBy and query both non-empty, GET /students returns exactly
\* the stored records with a non-empty value at searchBy that contains query
\* ignoring case, in stored order; otherwise it returns the whole collection.
C5_FilterIsExact ==
    (last = "get" /\ file.kind = "array") =>
        LET Selected(student) ==
                /\ req.searchBy.val \in DOMAIN student
                /\ Truthy(student[req.searchBy.val])
                /\ includes(toLowerCase(student[req.searchBy.val].v),
                            toLowerCase(req.query.v))
        IN  /\ resp.status = 200
            /\ resp.students =
                 IF req.searchBy.given /\ req.searchBy.val # "" /\ Truthy(req.query)
                 THEN Arr(SelectSeq(file.items, Selected))
                 ELSE Arr(file.items)

----------------------------------------------------------------------------
(* C6 *)

\* C6: when the file is missing, empty or holds anything but a JSON array of
\* records, loadStudents returns an empty array and GET /students answers
\* 200 with { students: [] }.
C6_LoadFailsOpen ==
    (last = "get" /\ file.kind \in {"missing", "empty", "malformed", "object"}) =>
        /\ loadStudents(file) = Arr(<<>>)
        /\ resp = Students200(Arr(<<>>))

----------------------------------------------------------------------------
(* C7 *)

\* C7 as stated: when the write of a valid POST /students fails, the client
\* still gets 201 with the new record and the document keeps its content.
C7_FailedWriteKeepsDocument ==
    [][(last' = "post" /\ WriteFailed(saveLog')) =>
          /\ resp'.status = 201
          /\ CarriesPayload(resp'.student, req'.body)
          /\ file' = file]_vars

\* C7 amended: when the write of a valid POST /students fails, the client
\* still gets 201 with the new record; the document keeps its content when
\* the file could not be opened, and is left empty or partial when the
\* write failed after the file was opened and truncated.
C7_FailedWriteIsSilent ==
    [][(last' = "post" /\ WriteFailed(saveLog')) =>
          /\ resp'.status = 201
          /\ resp'.kind = "created"
          /\ CarriesPayload(resp'.student, req'.body)
          /\ (saveLog' = "open_fails" => file' = file)
          /\ (saveLog' = "write_fails_empty" => file' = EmptyFile)
          /\ (saveLog' = "write_fails_partial" => file' = MalformedFile)]_vars

C7_Witness ==
    /\ last = "post"
    /\ saveLog = "write_fails_partial"
    /\ resp.status = 201
    /\ file = MalformedFile
    /\ acked = <<>>

----------------------------------------------------------------------------
(* C8 *)

\* C8 as stated: while one POST handler stands between its load and its
\* save, the handler of another pending POST can run.
C8_HandlersInterleave ==
    \A h \in Handlers, o \in Handlers :
        (h # o /\ pc[h] \in {"loaded", "pushed"} /\ pc[o] = "idle") =>
            ENABLED PostBegin(o)

\* the handlers answered 201 whose write succeeded
Created == {h \in Handlers : pc[h] = "sent201" /\ wrote[h] = "ok"}

\* C8 amended: handlers of one process never interleave, so when no write
\* fails the document holds the record of every POST answered 201, each at
\* a place of its own: no update is lost.
C8_NoLostUpdate ==
    (\A h \in Handlers : ~WriteFailed(wrote[h])) =>
        \E place \in [Created -> 1..Len(Persisted(file))] :
            /\ \A h \in Created, o \in Created : place[h] = place[o] => h = o
            /\ \A h \in Created : file.items[place[h]] = Stringify(made[h])

C8_Witness ==
    /\ Cardinality(Created) = 2
    /\ Len(Persisted(file)) = 2
    /\ \A h \in Handlers : ~WriteFailed(wrote[h])

----------------------------------------------------------------------------
(* C9 *)

\* C9 as stated: no step removes, reorders or edits a persisted record, and
\* a POST whose save succeeds puts the new record last.
C9_AppendOnly ==
    [][/\ IsPrefix(Persisted(file), Persisted(file'))
       /\ (last' = "post" /\ saveLog' = "ok") =>
              Persisted(file') = Append(Persisted(file), resp'.student)]_vars

\* C9 amended: a POST whose save succeeds keeps the persisted records as
\* they were and in order and puts the new record last; the only step that
\* removes persisted records is a write that fails after truncating the
\* file, which removes them all.
C9_AppendOnlyUnlessTruncated ==
    [][/\ (last' = "post" /\ saveLog' = "ok") =>
              Persisted(file') = Append(Persisted(file), resp'.student)
       /\ Truncated(saveLog') => Persisted(file') = <<>>
       /\ ~Truncated(saveLog') => IsPrefix(Persisted(file), Persisted(file'))]_vars

C9_Witness ==
    /\ last = "post"
    /\ saveLog = "ok"
    /\ Len(Persisted(file)) = 2
    /\ file.items[1] # file.items[2]
    /\ file.items[2] = resp.student

----------------------------------------------------------------------------
(* C10 *)

\* C10: starting from the document created at startup, every persisted
\* record has a truthy name, rollNo, universityId, year and department.
C10_PersistedRecordsComplete ==
    \A i \in 1..Len(Persisted(file)) :
        \A k \in {"name", "rollNo", "universityId", "year", "department"} :
            /\ k \in DOMAIN file.items[i]
            /\ Truthy(file.items[i][k])

C10_Witness ==
    /\ last = "post"
    /\ resp.status = 201
    /\ Len(Persisted(file)) = 2
    /\ file.items[1]["name"].t = "number"

=============================================================================
